---- MODULE Spec2Model ----
(***************************************************************************)
(* AssetDashboard (server/src/components/assets/AssetDashboard.tsx).       *)
(*                                                                         *)
(* One mounted instance of the component: its three pieces of React state  *)
(* (assets, maintenanceSummaries, loading), the values derived from them   *)
(* on every render (assetsByCompany, maintenanceStats) and the single      *)
(* run of the mount effect, loadMaintenanceSummaries.  JavaScript runs a   *)
(* continuation to completion, so an action is the code between two        *)
(* suspension points (the awaits of getClientMaintenanceSummary).  A state *)
(* setter is modelled as the assignment of the value it commits.  assets   *)
(* never changes, so assetsByCompany is the value of the first render,     *)
(* which is also the one the effect's closure holds.                       *)
(***************************************************************************)
EXTENDS Integers, Sequences, FiniteSets, TLC

\* ------------------------------------------------------------------ bounds
MaxAssets == 3

\* ------------------------------------------------------------ input values
\* asset.company_id is a string or absent; NULL stands for null/undefined.
NULL == "<null>"

\* Company identifiers.  "10" and "2" are canonical array indices, which a
\* JavaScript object enumerates before its other keys, in numeric order.
CompanyIds == {"acme", "10", "2"}

CompanyIdValues == CompanyIds \cup {NULL, ""}

\* Numeric value of the identifiers that are canonical array indices.
ArrayIndexValue == [k \in {"10", "2"} |-> IF k = "10" THEN 10 ELSE 2]

\* What getClientMaintenanceSummary can resolve with.
SummaryValues ==
  { [total_schedules |-> 5, overdue_maintenances |-> 1,
     upcoming_maintenances |-> 2, compliance_rate |-> 80],
    [total_schedules |-> 3, overdue_maintenances |-> 0,
     upcoming_maintenances |-> 1, compliance_rate |-> 100] }

\* ------------------------------------------------- JavaScript plain objects
\* An object is its own properties in creation order: keys[i] holds vals[i].
EmptyObj == [keys |-> <<>>, vals |-> <<>>]

Has(obj, k) == \E i \in 1..Len(obj.keys) : obj.keys[i] = k

KeyPos(obj, k) == CHOOSE i \in 1..Len(obj.keys) : obj.keys[i] = k

Get(obj, k) == obj.vals[KeyPos(obj, k)]

\* obj[k] = v
Put(obj, k, v) ==
  IF Has(obj, k)
  THEN [obj EXCEPT !.vals[KeyPos(obj, k)] = v]
  ELSE [keys |-> Append(obj.keys, k), vals |-> Append(obj.vals, v)]

KeySet(obj) == {obj.keys[i] : i \in 1..Len(obj.keys)}

RECURSIVE AscendingIndexKeys(_)
AscendingIndexKeys(S) ==
  IF S = {} THEN <<>>
  ELSE LET m == CHOOSE k \in S :
                  \A o \in S : ArrayIndexValue[k] <= ArrayIndexValue[o]
       IN <<m>> \o AscendingIndexKeys(S \ {m})

\* Object.keys(obj): array-index keys ascending, then the others in
\* creation order.
ObjectKeys(obj) ==
  AscendingIndexKeys(KeySet(obj) \cap DOMAIN ArrayIndexValue)
    \o SelectSeq(obj.keys, LAMBDA k : k \notin DOMAIN ArrayIndexValue)

\* Object.values(obj): the values in Object.keys order.
ObjectValues(obj) ==
  LET ks == ObjectKeys(obj) IN [i \in 1..Len(ks) |-> Get(obj, ks[i])]

\* !v for a string-or-null v
Falsy(v) == v = NULL \/ v = ""

\* ------------------------------------------------------------------- state
VARIABLES
  assets,                \* useState(initialAssets.assets)
  assetsByCompany,       \* const assetsByCompany = assets.reduce(...)
  maintenanceSummaries,  \* useState({})
  loading,               \* useState(false)
  promise,               \* state of the promise of loadMaintenanceSummaries()
  summaries,             \* local of loadMaintenanceSummaries
  keys,                  \* the array Object.keys(assetsByCompany) iterated
  idx,                   \* position of the for..of loop in keys
  inflight,              \* companies whose getClientMaintenanceSummary is pending
  log                    \* calls made so far, in order: <<operation, argument>>

vars == <<assets, assetsByCompany, maintenanceSummaries, loading, promise, summaries, keys,
          idx, inflight, log>>

\* -------------------------------------------------------- derived on render
\* GroupStep with unshift in place of push: the newest asset goes first.
GroupStepPrepend(acc, asset) ==
  IF Falsy(asset.company_id) THEN acc
  ELSE LET a1 == IF ~Has(acc, asset.company_id)
                 THEN Put(acc, asset.company_id, <<>>)
                 ELSE acc
       IN Put(a1, asset.company_id,
              <<asset>> \o Get(a1, asset.company_id))

\* The callback of assets.reduce that groups by company.
GroupStep(acc, asset) ==
  IF Falsy(asset.company_id) THEN acc
  ELSE LET a1 == IF ~Has(acc, asset.company_id)
                 THEN Put(acc, asset.company_id, <<>>)
                 ELSE acc
       IN Put(a1, asset.company_id,
              Append(Get(a1, asset.company_id), asset))

\* arr.reduce(GroupStep, acc): the callback applied left to right.
RECURSIVE ReduceGroups(_, _)
ReduceGroups(arr, acc) ==
  IF arr = <<>> THEN acc
  ELSE ReduceGroups(Tail(arr), GroupStep(acc, Head(arr)))

AssetsByCompanyOf(list) == ReduceGroups(list, EmptyObj)

ZeroStats ==
  [totalSchedules |-> 0, overdueMaintenances |-> 0, upcomingMaintenances |-> 0]

\* StatsStep with = in place of +=: the last summary wins.
StatsStepOverwrite(acc, summary) ==
  [totalSchedules       |-> summary.total_schedules,
   overdueMaintenances  |-> summary.overdue_maintenances,
   upcomingMaintenances |-> summary.upcoming_maintenances]

\* The callback of Object.values(maintenanceSummaries).reduce.
StatsStep(acc, summary) ==
  [totalSchedules       |-> acc.totalSchedules + summary.total_schedules,
   overdueMaintenances  |-> acc.overdueMaintenances + summary.overdue_maintenances,
   upcomingMaintenances |-> acc.upcomingMaintenances + summary.upcoming_maintenances]

\* arr.reduce(StatsStep, acc): the callback applied left to right.
RECURSIVE ReduceStats(_, _)
ReduceStats(arr, acc) ==
  IF arr = <<>> THEN acc
  ELSE ReduceStats(Tail(arr), StatsStep(acc, Head(arr)))

MaintenanceStatsOf(obj) == ReduceStats(ObjectValues(obj), ZeroStats)

maintenanceStats == MaintenanceStatsOf(maintenanceSummaries)

\* ------------------------------------------------------------------ actions
AssetLists ==
  UNION { { [i \in 1..n |-> [asset_id |-> i, company_id |-> f[i]]] :
              f \in [1..n -> CompanyIdValues] } : n \in 0..MaxAssets }

Init ==
  /\ assets \in AssetLists
  /\ assetsByCompany = AssetsByCompanyOf(assets)
  /\ maintenanceSummaries = EmptyObj
  /\ loading = FALSE
  /\ promise = "unstarted"
  /\ summaries = EmptyObj
  /\ keys = <<>>
  /\ idx = 0
  /\ inflight = {}
  /\ log = <<>>

\* LoopHead with setMaintenanceSummaries moved into the loop body, merging
\* each summary into the state as it arrives.
LoopHeadCommitEach(ks, sm, i, ld, lg) ==
  IF i <= Len(ks)
  THEN /\ inflight' = {ks[i]}
       /\ idx' = i
       /\ summaries' = sm
       /\ maintenanceSummaries' = sm
       /\ loading' = ld
       /\ promise' = "pending"
       /\ log' = lg \o << <<"setMaintenanceSummaries", "">>,
                          <<"fetch", ks[i]>> >>
  ELSE /\ inflight' = {}
       /\ idx' = i
       /\ summaries' = sm
       /\ maintenanceSummaries' = sm
       /\ loading' = FALSE
       /\ promise' = "fulfilled"
       /\ log' = lg \o << <<"setMaintenanceSummaries", "">>,
                          <<"setLoading", "false">> >>

\* LoopHead with setMaintenanceSummaries({[companyId]: summary}) in the loop
\* body: each summary replaces the state instead of joining it.
LoopHeadReplaceEach(ks, sm, i, ld, lg) ==
  /\ maintenanceSummaries' =
       IF i > 1 /\ i - 1 <= Len(ks) /\ Has(sm, ks[i - 1])
       THEN Put(EmptyObj, ks[i - 1], Get(sm, ks[i - 1]))
       ELSE maintenanceSummaries
  /\ summaries' = sm
  /\ idx' = i
  /\ IF i <= Len(ks)
     THEN /\ inflight' = {ks[i]}
          /\ loading' = ld
          /\ promise' = "pending"
          /\ log' = Append(lg, <<"fetch", ks[i]>>)
     ELSE /\ inflight' = {}
          /\ loading' = FALSE
          /\ promise' = "fulfilled"
          /\ log' = Append(lg, <<"setLoading", "false">>)

\* The for..of loop from its head, about to take element i of ks, with the
\* local summaries sm, the loading flag ld and the calls lg made so far:
\* either the next fetch is issued and the function suspends, or the loop is
\* over and the function runs to its end.
LoopHead(ks, sm, i, ld, lg) ==
  IF i <= Len(ks)
  THEN /\ inflight' = {ks[i]}
       /\ idx' = i
       /\ summaries' = sm
       /\ loading' = ld
       /\ promise' = "pending"
       /\ log' = Append(lg, <<"fetch", ks[i]>>)
       /\ UNCHANGED maintenanceSummaries
  ELSE /\ inflight' = {}
       /\ idx' = i
       /\ summaries' = sm
       /\ maintenanceSummaries' = sm
       /\ loading' = FALSE
       /\ promise' = "fulfilled"
       /\ log' = lg \o << <<"setMaintenanceSummaries", "">>,
                          <<"setLoading", "false">> >>

\* RunEffect with the fetches of all companies issued together.
RunEffectIssueAll ==
  /\ promise = "unstarted"
  /\ keys' = ObjectKeys(assetsByCompany)
  /\ IF keys' = <<>>
     THEN LoopHead(keys', EmptyObj, 1, TRUE,
                   Append(log, <<"setLoading", "true">>))
     ELSE /\ inflight' = {keys'[i] : i \in 1..Len(keys')}
          /\ idx' = 1
          /\ summaries' = EmptyObj
          /\ loading' = TRUE
          /\ promise' = "pending"
          /\ log' = <<<<"setLoading", "true">>>>
                      \o [i \in 1..Len(keys') |-> <<"fetch", keys'[i]>>]
          /\ UNCHANGED maintenanceSummaries
  /\ UNCHANGED <<assets, assetsByCompany>>

\* The mount effect: loadMaintenanceSummaries() up to its first await.
RunEffect ==
  /\ promise = "unstarted"
  /\ keys' = ObjectKeys(assetsByCompany)
  /\ LoopHead(keys', EmptyObj, 1, TRUE, Append(log, <<"setLoading", "true">>))
  /\ UNCHANGED <<assets, assetsByCompany>>

\* The awaited fetch resolves: the loop body finishes and the loop goes on.
FetchResolve ==
  /\ promise = "pending"
  /\ \E c \in inflight, summary \in SummaryValues :
       LoopHead(keys, Put(summaries, c, summary), idx + 1, loading,
                Append(log, <<"resolve", c>>))
  /\ UNCHANGED <<assets, assetsByCompany, keys>>

\* FetchReject with the try/catch inside the loop body: the loop goes on.
FetchRejectContinue ==
  /\ promise = "pending"
  /\ \E c \in inflight :
       LoopHead(keys, summaries, idx + 1, loading,
                log \o << <<"reject", c>>, <<"console.error", c>> >>)
  /\ UNCHANGED <<assets, assetsByCompany, keys>>

\* FetchReject with setLoading(false) inside the try block: it is skipped.
FetchRejectLoadingStuck ==
  /\ promise = "pending"
  /\ \E c \in inflight :
       log' = log \o << <<"reject", c>>, <<"console.error", c>> >>
  /\ inflight' = {}
  /\ promise' = "fulfilled"
  /\ UNCHANGED <<assets, assetsByCompany, maintenanceSummaries, loading, summaries, keys, idx>>

\* FetchReject with summaries declared outside the try block and committed
\* after the catch clause: the summaries fetched before the failure are kept.
FetchRejectCommitPartial ==
  /\ promise = "pending"
  /\ \E c \in inflight :
       log' = log \o << <<"reject", c>>, <<"console.error", c>>,
                        <<"setMaintenanceSummaries", "">>,
                        <<"setLoading", "false">> >>
  /\ inflight' = {}
  /\ maintenanceSummaries' = summaries
  /\ loading' = FALSE
  /\ promise' = "fulfilled"
  /\ UNCHANGED <<assets, assetsByCompany, summaries, keys, idx>>

\* FetchReject without a catch clause: the rejection leaves the function.
FetchRejectUncaught ==
  /\ promise = "pending"
  /\ \E c \in inflight : log' = Append(log, <<"reject", c>>)
  /\ inflight' = {}
  /\ promise' = "rejected"
  /\ UNCHANGED <<assets, assetsByCompany, maintenanceSummaries, loading, summaries, keys, idx>>

\* The awaited fetch rejects: control leaves the try block for the catch
\* clause, and then the statement after it.
FetchReject ==
  /\ promise = "pending"
  /\ \E c \in inflight :
       log' = log \o << <<"reject", c>>, <<"console.error", c>>,
                        <<"setLoading", "false">> >>
  /\ inflight' = {}
  /\ loading' = FALSE
  /\ promise' = "fulfilled"
  /\ UNCHANGED <<assets, assetsByCompany, maintenanceSummaries, summaries, keys, idx>>

Next == RunEffect \/ FetchResolve \/ FetchReject

Spec == Init /\ [][Next]_vars

\* The event loop runs the continuation of a settled promise, and every
\* fetch is assumed to settle.
FairSpec == Spec /\ WF_vars(Next)

\* ------------------------------------------------------- reading the state
\* The arguments of the calls of one operation made so far.
Args(op) == {log[i][2] : i \in {j \in 1..Len(log) : log[j][1] = op}}

Fetched == Args("fetch")

Resolved == Args("resolve")

Rejected == Args("reject")

\* The companies fetched, in the order the fetches were issued.
FetchOrder ==
  LET f == SelectSeq(log, LAMBDA e : e[1] = "fetch")
  IN [i \in 1..Len(f) |-> f[i][2]]

Calls(op) == Cardinality({j \in 1..Len(log) : log[j][1] = op})

FirstCall(op) == CHOOSE j \in 1..Len(log) :
                   log[j][1] = op /\ \A h \in 1..(j - 1) : log[h][1] # op

RECURSIVE SumField(_, _, _)
SumField(obj, S, field) ==
  IF S = {} THEN 0
  ELSE LET c == CHOOSE x \in S : TRUE
       IN Get(obj, c)[field] + SumField(obj, S \ {c}, field)

\* The three sums over the entries of obj whose keys are in S.
SumsOver(obj, S) ==
  [totalSchedules       |-> SumField(obj, S, "total_schedules"),
   overdueMaintenances  |-> SumField(obj, S, "overdue_maintenances"),
   upcomingMaintenances |-> SumField(obj, S, "upcoming_maintenances")]

Done == promise = "fulfilled"

\* ------------------------------------------------------------------ claims

C3_LoadingBracketsPass ==
  /\ [](Fetched # {} => /\ Calls("setLoading") >= 1
                       /\ log[FirstCall("setLoading")] = <<"setLoading", "true">>
                       /\ FirstCall("setLoading") < FirstCall("fetch"))
  /\ []((inflight # {} \/ promise = "pending") => loading)
  /\ []((promise = "fulfilled" \/ promise = "rejected") => ~loading)
  /\ <>(Done /\ ~loading)

C3_Witness ==
  /\ Done
  /\ ~loading
  /\ Resolved # {}
  /\ Rejected # {}
  /\ log[1] = <<"setLoading", "true">>
  /\ log[Len(log)] = <<"setLoading", "false">>

C5_SequentialFetches ==
  /\ Cardinality(inflight) <= 1
  /\ Len(FetchOrder) <= Len(keys)
  /\ FetchOrder = SubSeq(keys, 1, Len(FetchOrder))
  /\ \A i \in 1..Len(FetchOrder) :
       \A j \in 1..(i - 1) : FetchOrder[j] \in Resolved \cup Rejected
  /\ inflight = Fetched \ (Resolved \cup Rejected)

C5_Witness ==
  /\ Len(FetchOrder) >= 2
  /\ inflight = {FetchOrder[2]}
  /\ FetchOrder[1] \in Resolved

\* C6: no rejection leaves loadMaintenanceSummaries: each one is caught and
\* logged, the promise of the pass is never rejected, and the pass comes to
\* its normal end.
C6_RejectionsCaught ==
  /\ [](promise # "rejected")
  /\ [](\A c \in Rejected :
          /\ <<"console.error", c>> \in {log[h] : h \in 1..Len(log)}
          /\ Done)
  /\ <>Done

C6_Witness ==
  /\ Done
  /\ Len(keys) >= 2
  /\ Rejected = {keys[1]}
  /\ Resolved = {}
  /\ Calls("console.error") = 1

\* C7: every step keeps the entries of the summary mapping: an entry that is
\* present stays present, with its value.
C7_MappingGrows ==
  [][\A c \in KeySet(maintenanceSummaries) :
       /\ Has(maintenanceSummaries', c)
       /\ Get(maintenanceSummaries', c) = Get(maintenanceSummaries, c)]_vars

C7_Witness ==
  /\ Done
  /\ Len(maintenanceSummaries.keys) >= 2
  /\ Calls("setMaintenanceSummaries") = 1

\* C8: assetsByCompany is a stable partition of the assets that have a
\* company identifier: the group of a company is the subsequence of the
\* assets of that company, there is a group for exactly the companies that
\* occur, each asset with a company is in one group once and the others in
\* none, and no assets give the empty mapping.
C8_StablePartition ==
  LET g == assetsByCompany
      Occurrences(a) ==
        {<<k, p>> \in KeySet(g) \X (1..Len(assets)) :
           p <= Len(Get(g, k)) /\ Get(g, k)[p] = a}
  IN /\ KeySet(g) = {assets[i].company_id : i \in 1..Len(assets)}
                      \ {NULL, ""}
     /\ Cardinality(KeySet(g)) = Len(g.keys)
     /\ \A k \in KeySet(g) :
          /\ Get(g, k) = SelectSeq(assets, LAMBDA a : a.company_id = k)
          /\ Get(g, k) # <<>>
          /\ \A p, q \in 1..Len(Get(g, k)) :
               p < q => Get(g, k)[p].asset_id < Get(g, k)[q].asset_id
     /\ \A i \in 1..Len(assets) :
          IF Falsy(assets[i].company_id)
          THEN Occurrences(assets[i]) = {}
          ELSE /\ Cardinality(Occurrences(assets[i])) = 1
               /\ \A o \in Occurrences(assets[i]) : o[1] = assets[i].company_id
     /\ assets = <<>> => g = EmptyObj

C8_Witness ==
  /\ promise # "unstarted"
  /\ keys = ObjectKeys(assetsByCompany)
  /\ Len(assets) = 3
  /\ assets[1].company_id = assets[3].company_id
  /\ ~Falsy(assets[1].company_id)
  /\ Falsy(assets[2].company_id)
  /\ Len(Get(assetsByCompany, assets[1].company_id)) = 2

C10_AllOrNothing ==
  /\ \/ maintenanceSummaries = EmptyObj
     \/ KeySet(maintenanceSummaries) = KeySet(assetsByCompany)
  /\ Calls("setMaintenanceSummaries") <= 1
  /\ Calls("setMaintenanceSummaries") = 1 =>
       /\ Resolved = KeySet(assetsByCompany)
       /\ Rejected = {}
       /\ inflight = {}
       /\ maintenanceSummaries = summaries
  /\ Rejected # {} =>
       /\ maintenanceSummaries = EmptyObj
       /\ Calls("setMaintenanceSummaries") = 0

C10_Witness ==
  /\ Done
  /\ Cardinality(Resolved) = 2
  /\ Rejected # {}
  /\ Len(summaries.keys) = 2
  /\ maintenanceSummaries = EmptyObj

====
